---- MODULE Spec2Model ----
(***************************************************************************)
(* Model of wordle.py (jgferrell/wordle): the generator guess_generator    *)
(* and its helpers _permgen and _combogen.                                 *)
(*                                                                         *)
(* A Python str is modelled as a sequence of one-character strings.  The   *)
(* generator is modelled as a coroutine: pc is the place where the frame   *)
(* of guess_generator is, the other variables are its locals, and yielded  *)
(* is the sequence of values delivered to the consumer so far.             *)
(***************************************************************************)
EXTENDS Integers, Sequences, FiniteSets

VARIABLES previous_guess, available_letters, required_letters, dictionary,
          pc, combos_drawn, combos_seen, perm_generators, combo_src,
          gen_idx, perm_idx, perms_seen, yielded

vars == <<previous_guess, available_letters, required_letters, dictionary,
          pc, combos_drawn, combos_seen, perm_generators, combo_src,
          gen_idx, perm_idx, perms_seen, yielded>>

inputs == <<previous_guess, available_letters, required_letters, dictionary>>

(***************************************************************************)
(* Bounds of the input space.                                              *)
(***************************************************************************)
MaxPattern == 2
MaxAvailable == 3
MaxRequired == 2

Letters == {"a", "b"}
PatternChars == {"a", "?", "#"}

\* the parameter dictionary: None, or a collection tested with `in`
NoDict == [given |-> FALSE, words |-> {}]
DictOf(ws) == [given |-> TRUE, words |-> ws]

Range(s) == {s[i] : i \in DOMAIN s}

SeqsUpTo(S, n) == UNION {[1..k -> S] : k \in 0..n}

(***************************************************************************)
(* Library functions, by what they do.                                     *)
(***************************************************************************)
\* str.count(c)
Count(s, c) == Cardinality({i \in DOMAIN s : s[i] = c})

\* a replace that overwrites the first character instead of the first '?'
ReplaceHead(s, letter) ==
    IF s = <<>> THEN s ELSE [s EXCEPT ![1] = letter]

\* str.replace('?', letter, 1): the first '?' of s becomes letter; a string
\* without '?' is returned unchanged
Replace(s, letter) ==
    IF \E i \in DOMAIN s : s[i] = "?"
    THEN LET i == CHOOSE k \in DOMAIN s :
                      s[k] = "?" /\ \A j \in 1..(k-1) : s[j] # "?"
         IN [s EXCEPT ![i] = letter]
    ELSE s

RemoveAt(s, i) == SubSeq(s, 1, i-1) \o SubSeq(s, i+1, Len(s))

PrependAll(c, ss) == [k \in DOMAIN ss |-> <<c>> \o ss[k]]

RECURSIVE permgen(_), PermsFrom(_, _), combogen(_, _)

\* a permutation source that gives the identity ordering only
permgenIdentity(p) == <<p>>

\* _permgen(p): itertools.permutations(p) joined to strings; the index
\* tuples come in lexicographic order
permgen(p) == IF p = <<>> THEN << <<>> >> ELSE PermsFrom(p, 1)

PermsFrom(p, i) ==
    IF i > Len(p) THEN <<>>
    ELSE PrependAll(p[i], permgen(RemoveAt(p, i))) \o PermsFrom(p, i+1)

\* a combination source that gives the combinations without the first
\* character before those with it
combogenLaterFirst(p, r) ==
    IF r = 0 THEN << <<>> >>
    ELSE IF Len(p) < r THEN <<>>
    ELSE combogen(Tail(p), r) \o PrependAll(Head(p), combogen(Tail(p), r-1))

\* _combogen(p, r) for r >= 0: itertools.combinations(p, r) joined to
\* strings; the index tuples come in lexicographic order
combogen(p, r) ==
    IF r = 0 THEN << <<>> >>
    ELSE IF Len(p) < r THEN <<>>
    ELSE PrependAll(Head(p), combogen(Tail(p), r-1)) \o combogen(Tail(p), r)

(***************************************************************************)
(* Pieces of guess_generator.                                              *)
(***************************************************************************)
n_unknown == Count(previous_guess, "?")
n_required == Len(required_letters)

\* the test of line 54 written as an order comparison
NeedsSelectionGreater(u, r) == u > r

\* line 54: the test that sends the run to the else branch (selection phase)
NeedsSelection(u, r) == u # r

\* a pattern with a character outside a-z and '?'
Malformed == \E p \in DOMAIN previous_guess :
                 previous_guess[p] \notin Letters \cup {"?"}

\* an entry that also raises for a malformed pattern
RaisesOrMalformed(r) == r < 0 \/ Malformed

\* itertools.combinations(p, r) raises ValueError for r < 0
CombinationsRaises(r) == r < 0

\* a test of line 60 that never skips
ComboNeverSkipped(combo, seen) == FALSE

\* line 60
ComboSkipped(combo, seen) == combo \in seen

\* a test of line 69 that never skips
PermNeverSkipped(perm, seen) == FALSE

\* line 69
PermSkipped(perm, seen) == perm \in seen

\* lines 72-74
RECURSIVE Substitute(_, _)
Substitute(guess, perm) ==
    IF perm = <<>> THEN guess
    ELSE Substitute(Replace(guess, Head(perm)), Tail(perm))

\* a test of line 75 that ignores the dictionary
InDictionaryAlways(guess, dict) == TRUE

\* a test of line 75 with the membership negated
InDictionaryInverted(guess, dict) == ~dict.given \/ guess \notin dict.words

\* line 75
InDictionary(guess, dict) == ~dict.given \/ guess \in dict.words

\* the source of combinations read by the loop of line 59
ComboSource == combogen(available_letters, n_unknown - n_required)

\* a loop of line 59 that stops after its first combination
SourceExhaustedEarly(drawn, total) == drawn >= total \/ drawn >= 1

\* line 59: the for loop ends when the source is exhausted
SourceExhausted(drawn, total) == drawn >= total

(***************************************************************************)
(* The whole run of guess_generator as a function of its arguments: the    *)
(* sequence of guesses a consumer gets when it reads the generator to its  *)
(* end (empty when the run ends in ValueError).                            *)
(***************************************************************************)
RECURSIVE build_generators(_, _, _), chain(_)

\* lines 57-63: the pools of the permutation generators, in order
build_generators(src, seen, required) ==
    IF src = <<>> THEN <<>>
    ELSE IF ComboSkipped(Head(src), seen)
         THEN build_generators(Tail(src), seen, required)
         ELSE <<Head(src) \o required>>
                  \o build_generators(Tail(src), seen \cup {Head(src)}, required)

\* line 64: itertools.chain(*perm_generators)
chain(gens) ==
    IF gens = <<>> THEN <<>> ELSE permgen(Head(gens)) \o chain(Tail(gens))

\* lines 67-76: perms_seen at the i-th element of perms is the set of the
\* elements before it
guess_loop(perms, pattern, dict) ==
    LET Kept(i) == /\ ~PermSkipped(perms[i], {perms[j] : j \in 1..(i-1)})
                   /\ InDictionary(Substitute(pattern, perms[i]), dict)
        kept == SelectSeq([i \in DOMAIN perms |-> i], Kept)
    IN [k \in DOMAIN kept |-> Substitute(pattern, perms[kept[k]])]

guess_generator(pattern, available, required, dict) ==
    LET u == Count(pattern, "?")
        r == Len(required)
    IN IF NeedsSelection(u, r)
       THEN IF CombinationsRaises(u - r) THEN <<>>
            ELSE guess_loop(chain(build_generators(combogen(available, u - r),
                                                   {}, required)),
                            pattern, dict)
       ELSE guess_loop(permgen(required), pattern, dict)

(***************************************************************************)
(* Inputs.                                                                 *)
(***************************************************************************)
Dictionaries ==
    { NoDict,
      DictOf({w \in SeqsUpTo(Letters \cup {"#"}, MaxPattern) :
                  w # <<>> /\ w[Len(w)] = "b"}),
      DictOf({<<"a", "a">>, <<"a", "b", "a">>, <<"b">>}) }

Crane == <<"c", "r", "a", "n", "e">>
Crate == <<"c", "r", "a", "t", "e">>
Crony == <<"c", "r", "o", "n", "y">>

\* generate("cr???", "aeiou", "", {"crane", "crate", "crony"})
Scenario3 ==
    /\ previous_guess = <<"c", "r", "?", "?", "?">>
    /\ available_letters = <<"a", "e", "i", "o", "u">>
    /\ required_letters = <<>>
    /\ dictionary = DictOf({Crane, Crate, Crony})

Init ==
    /\ \/ /\ previous_guess \in SeqsUpTo(PatternChars, MaxPattern)
          /\ available_letters \in SeqsUpTo(Letters, MaxAvailable)
          /\ required_letters \in SeqsUpTo(Letters, MaxRequired)
          /\ dictionary \in Dictionaries
       \/ Scenario3
    /\ pc = "start"
    /\ combos_drawn = 0
    /\ combos_seen = {}
    /\ perm_generators = <<>>
    /\ combo_src = <<>>
    /\ gen_idx = 1
    /\ perm_idx = 0
    /\ perms_seen = {}
    /\ yielded = <<>>

(***************************************************************************)
(* Steps of the generator.                                                 *)
(***************************************************************************)
\* first next(): lines 50-58, up to the first read of the combination source
Start ==
    /\ pc = "start"
    /\ IF NeedsSelection(n_unknown, n_required)
       THEN IF CombinationsRaises(n_unknown - n_required)
            THEN /\ pc' = "error"
                 /\ perm_generators' = perm_generators
                 /\ combo_src' = combo_src
            ELSE /\ pc' = "combos"
                 /\ perm_generators' = <<>>
                 /\ combo_src' = <<>>
       ELSE /\ pc' = "perms"
            /\ perm_generators' = <<required_letters>>
            /\ combo_src' = <<0>>
    /\ UNCHANGED <<inputs, combos_drawn, combos_seen, gen_idx, perm_idx,
                   perms_seen, yielded>>

\* one iteration of the loop of lines 59-63, or its end and line 64
DrawCombo ==
    /\ pc = "combos"
    /\ IF SourceExhausted(combos_drawn, Len(ComboSource))
       THEN /\ pc' = "perms"
            /\ UNCHANGED <<combos_drawn, combos_seen, perm_generators, combo_src>>
       ELSE LET combo == ComboSource[combos_drawn + 1] IN
            /\ pc' = "combos"
            /\ combos_drawn' = combos_drawn + 1
            /\ IF ComboSkipped(combo, combos_seen)
               THEN UNCHANGED <<combos_seen, perm_generators, combo_src>>
               ELSE /\ combos_seen' = combos_seen \cup {combo}
                    /\ perm_generators' =
                           Append(perm_generators, combo \o required_letters)
                    /\ combo_src' = Append(combo_src, combos_drawn + 1)
    /\ UNCHANGED <<inputs, gen_idx, perm_idx, perms_seen, yielded>>

\* one iteration of the loop of lines 68-76: the next element of
\* itertools.chain(*perm_generators), or the end of the generator
DrawPerm ==
    /\ pc = "perms"
    /\ LET here == gen_idx <= Len(perm_generators)
                   /\ perm_idx < Len(permgen(perm_generators[gen_idx]))
           g == IF here THEN gen_idx ELSE gen_idx + 1
           k == IF here THEN perm_idx + 1 ELSE 1
       IN IF g > Len(perm_generators)
          THEN /\ pc' = "done"
               /\ UNCHANGED <<gen_idx, perm_idx, perms_seen, yielded>>
          ELSE LET perm == permgen(perm_generators[g])[k] IN
               /\ gen_idx' = g
               /\ perm_idx' = k
               /\ IF PermSkipped(perm, perms_seen)
                  THEN /\ pc' = "perms"
                       /\ UNCHANGED <<perms_seen, yielded>>
                  ELSE /\ perms_seen' = perms_seen \cup {perm}
                       /\ LET guess == Substitute(previous_guess, perm) IN
                          IF InDictionary(guess, dictionary)
                          THEN /\ yielded' = Append(yielded, guess)
                               /\ pc' = "yielded"
                          ELSE /\ yielded' = yielded
                               /\ pc' = "perms"
    /\ UNCHANGED <<inputs, combos_drawn, combos_seen, perm_generators, combo_src>>

\* the consumer asks for the next guess (line 22): the frame resumes after
\* the yield of line 76
Resume ==
    /\ pc = "yielded"
    /\ pc' = "perms"
    /\ UNCHANGED <<inputs, combos_drawn, combos_seen, perm_generators, combo_src,
                   gen_idx, perm_idx, perms_seen, yielded>>

Next == Start \/ DrawCombo \/ DrawPerm \/ Resume

Spec == Init /\ [][Next]_vars

(***************************************************************************)
(* Vocabulary of the properties.                                           *)
(***************************************************************************)
SameMultiset(x, y) == \A c \in Range(x) \cup Range(y) : Count(x, c) = Count(y, c)

\* the combination from which the i-th pool was built
ComboOfPool(i) == ComboSource[combo_src[i]]

\* equal letters of s stand next to each other
EqualsAdjacent(s) ==
    \A i, j \in DOMAIN s :
        (i < j /\ s[i] = s[j]) => \A k \in i..j : s[k] = s[i]

\* the letters of o written left to right into the '?' positions of pattern
Fill(pattern, o) ==
    [p \in DOMAIN pattern |->
        IF pattern[p] = "?" THEN o[Count(SubSeq(pattern, 1, p), "?")]
        ELSE pattern[p]]

CharsUsed == Range(available_letters) \cup Range(required_letters)

\* the arrangements of required_letters + S, S a sub-multiset of
\* available_letters of size n_unknown - n_required
Arrangements ==
    {o \in [1..n_unknown -> CharsUsed] :
        \A c \in CharsUsed :
            /\ Count(o, c) >= Count(required_letters, c)
            /\ Count(o, c) - Count(required_letters, c)
                   <= Count(available_letters, c)}

ExpectedGuesses == {Fill(previous_guess, o) : o \in Arrangements}

RECURSIVE Factorial(_), FactorialProduct(_, _)
Factorial(n) == IF n <= 1 THEN 1 ELSE n * Factorial(n - 1)
FactorialProduct(s, cs) ==
    IF cs = {} THEN 1
    ELSE LET c == CHOOSE x \in cs : TRUE
         IN Factorial(Count(s, c)) * FactorialProduct(s, cs \ {c})

\* the number of distinct permutations of the multiset s
DistinctPermutations(s) == Factorial(Len(s)) \div FactorialProduct(s, Range(s))

\* C1: no guess is yielded twice by one run.
NoGuessTwice ==
    \A i, j \in DOMAIN yielded : i # j => yielded[i] # yielded[j]

NoGuessTwiceWitness ==
    /\ pc = "done"
    /\ Len(yielded) >= 2
    /\ \E c \in Letters : /\ Count(available_letters, c) >= 2
                           /\ Count(required_letters, c) >= 1
    /\ n_unknown > n_required

\* C2: without a dictionary and with u >= r, the set of guesses of a finished
\* run is the set of fillings of the '?' positions by the arrangements of
\* present + S, S a sub-multiset of available of size u - r; with u = r their
\* number is the number of distinct permutations of present; with u = 0 the
\* pattern alone is yielded; with fewer than u - r available letters nothing.
CompleteAndSound ==
    (pc = "done" /\ ~dictionary.given /\ n_unknown >= n_required) =>
        /\ Range(yielded) = ExpectedGuesses
        /\ n_unknown = n_required =>
               Len(yielded) = DistinctPermutations(required_letters)
        /\ n_unknown = 0 => yielded = <<previous_guess>>
        /\ Len(available_letters) < n_unknown - n_required => yielded = <<>>

CompleteAndSoundWitness ==
    /\ pc = "done"
    /\ ~dictionary.given
    /\ n_unknown > n_required
    /\ n_required >= 1
    /\ Len(yielded) >= 3

\* C3: every guess has the length of the pattern and agrees with it at every
\* position that is not '?'.
ConstraintPreserved ==
    \A i \in DOMAIN yielded :
        /\ Len(yielded[i]) = Len(previous_guess)
        /\ \A p \in DOMAIN previous_guess :
               previous_guess[p] # "?" => yielded[i][p] = previous_guess[p]

ConstraintPreservedWitness ==
    /\ pc = "yielded"
    /\ \E p, q \in DOMAIN previous_guess :
           p < q /\ previous_guess[p] = "a" /\ previous_guess[q] = "?"

\* C4: with a dictionary, the guesses of a finished run are exactly the
\* guesses of the run without dictionary that are members of the dictionary,
\* in the same order.
DictionaryFilters ==
    pc = "done" =>
        LET all == guess_generator(previous_guess, available_letters,
                                   required_letters, NoDict)
            InWords(g) == g \in dictionary.words
        IN IF dictionary.given
           THEN /\ Range(yielded) \subseteq Range(all)
                /\ yielded = SelectSeq(all, InWords)
           ELSE yielded = all

DictionaryFiltersWitness ==
    /\ pc = "done"
    /\ dictionary.given
    /\ Len(yielded) >= 1
    /\ Len(yielded) < Cardinality(perms_seen)

\* C5 as stated: scenario 3 yields "crane" and "crate" and nothing else.
Scenario3YieldsCraneCrate ==
    (Scenario3 /\ pc = "done") => Range(yielded) = {Crane, Crate}

\* C5 amended: scenario 3 yields nothing at all.
Scenario3YieldsNothing ==
    Scenario3 => (yielded = <<>> /\ pc # "yielded" /\ pc # "error")

Scenario3Witness ==
    Scenario3 /\ pc = "done" /\ Cardinality(perms_seen) = 60

\* C6: with more present letters than '?' positions the run ends in an error
\* at its first step and no guess is ever yielded.
InvalidConstraintFails ==
    n_unknown < n_required =>
        (yielded = <<>> /\ pc \in {"start", "error"})

InvalidConstraintWitness ==
    pc = "error" /\ n_unknown < n_required /\ available_letters # <<>>

\* C7 as stated: a pattern with a character outside a-z and '?' is rejected
\* with an error and yields nothing.
MalformedRejected ==
    (Malformed /\ pc # "start") => (pc = "error" /\ yielded = <<>>)

\* C7 amended: the pattern is not validated; the only error is the one of
\* u < r, and a character outside a-z and '?' stays at its position in every
\* guess like a known letter.
MalformedKept ==
    Malformed =>
        /\ pc = "error" => n_unknown < n_required
        /\ n_unknown >= n_required => pc # "error"
        /\ \A i \in DOMAIN yielded : \A p \in DOMAIN previous_guess :
               previous_guess[p] \notin Letters \cup {"?"} =>
                   yielded[i][p] = previous_guess[p]

MalformedKeptWitness ==
    Malformed /\ pc = "yielded" /\ n_unknown > n_required

\* C8 as stated: no two pools are built from combinations with the same
\* letters in the same multiplicities.
CombinationMultisetOnce ==
    NeedsSelection(n_unknown, n_required) =>
        \A i, j \in DOMAIN perm_generators :
            i < j => ~SameMultiset(ComboOfPool(i), ComboOfPool(j))

\* C8 amended: no two pools are built from the same combination string, and
\* every combination string drawn so far has its pool; when equal letters of
\* available are adjacent, no two pools are built from the same multiset.
CombinationStringOnce ==
    NeedsSelection(n_unknown, n_required) =>
        /\ \A i, j \in DOMAIN perm_generators :
               i < j =>
                   /\ ComboOfPool(i) # ComboOfPool(j)
                   /\ EqualsAdjacent(available_letters) =>
                          ~SameMultiset(ComboOfPool(i), ComboOfPool(j))
        /\ \A k \in 1..combos_drawn :
               \E i \in DOMAIN perm_generators :
                   /\ ComboOfPool(i) = ComboSource[k]
                   /\ perm_generators[i] = ComboSource[k] \o required_letters

CombinationStringOnceWitness ==
    /\ pc = "perms"
    /\ Len(perm_generators) >= 2
    /\ combos_drawn > Len(perm_generators)

\* C9 as stated: when a guess is delivered, no combination after the one
\* whose pool produced the guess has been drawn from the combination source.
CombinationsOnDemand ==
    pc = "yielded" => combos_drawn <= combo_src[gen_idx]

\* the permutations the chain has produced up to its present position
PermsDrawn ==
    UNION {{permgen(perm_generators[g])[k] :
                k \in 1..(IF g = gen_idx THEN perm_idx
                          ELSE Len(permgen(perm_generators[g])))} :
           g \in 1..gen_idx}

\* C9 amended: permutations are computed on demand, combinations are not:
\* when a guess is delivered the combination source has been read to its
\* end, and the permutations drawn are those up to and including the one
\* that gave the guess.
PermutationsOnDemand ==
    pc = "yielded" =>
        /\ NeedsSelection(n_unknown, n_required) =>
               combos_drawn = Len(ComboSource)
        /\ perms_seen = PermsDrawn
        /\ yielded[Len(yielded)] =
               Substitute(previous_guess,
                          permgen(perm_generators[gen_idx])[perm_idx])

PermutationsOnDemandWitness ==
    /\ pc = "yielded"
    /\ Len(yielded) = 1
    /\ Len(perm_generators) >= 2
    /\ gen_idx = 1
    /\ combos_drawn > combo_src[gen_idx]

\* index tuples of itertools.combinations and itertools.permutations
IncreasingTuples(n, m) ==
    {k \in [1..m -> 1..n] : \A i \in 1..(m-1) : k[i] < k[i+1]}
IndexPermutations(u) ==
    {s \in [1..u -> 1..u] : \A i, j \in 1..u : i # j => s[i] # s[j]}

LexLess(x, y) ==
    \E i \in DOMAIN x : x[i] < y[i] /\ \A j \in 1..(i-1) : x[j] = y[j]

\* the letter ordering at place x: x is a combination index tuple into
\* available followed by a permutation index tuple into the pool
\* (combination + present)
OrderingAt(x) ==
    LET m == n_unknown - n_required
        pool == [i \in 1..m |-> available_letters[x[i]]] \o required_letters
    IN [j \in 1..n_unknown |-> pool[x[m + j]]]

\* the places of the enumeration at which guess g occurs
Places(g) ==
    {x \in {k \o s : k \in IncreasingTuples(Len(available_letters),
                                            n_unknown - n_required),
                     s \in IndexPermutations(n_unknown)} :
        Fill(previous_guess, OrderingAt(x)) = g}

FirstPlace(g) == CHOOSE x \in Places(g) : \A y \in Places(g) : y = x \/ LexLess(x, y)

\* C10: guesses come in the order of the first place at which they occur in
\* the enumeration: combinations of available in position-lexicographic
\* order, and for each the permutations of combination + present in
\* position-lexicographic order.
OutputOrder ==
    \A i \in DOMAIN yielded :
        /\ Places(yielded[i]) # {}
        /\ \A j \in DOMAIN yielded :
               i < j => LexLess(FirstPlace(yielded[i]), FirstPlace(yielded[j]))

OutputOrderWitness ==
    /\ pc = "done"
    /\ Len(yielded) >= 3
    /\ Len(perm_generators) >= 2
    /\ combos_drawn > Len(perm_generators)
====
